---- MODULE Spec2Model ----
(***************************************************************************)
(* A model of read_pipelines.py (ADF Documentation Generation):            *)
(* read_pipeline parses one pipeline JSON file and appends its rendering   *)
(* to a Markdown file, one write() at a time.                              *)
(*                                                                         *)
(* Texts.  A text is a sequence of tokens and denotes the concatenation    *)
(* of its tokens.  The literal pieces of the format strings of the source  *)
(* are one token each ("\n<details>\n"); the texts of the input document   *)
(* are spelled character by character where the code looks inside them     *)
(* (str.replace, the substring test of `in`), and as one token otherwise.  *)
(*                                                                         *)
(* The output handle is the text file open(name, 'a') gives: write() adds  *)
(* the text to the handle's pending bytes, which go on to the handle's     *)
(* byte buffer once chunk_size bytes are pending, and from there to the    *)
(* file when they do not fit the buffer; what the handle still holds       *)
(* reaches the file when the handle is closed, by close() or, for a handle *)
(* an exception left open, when the caller lets go of the exception and    *)
(* the handle is finalised.  When the exception is part of a reference     *)
(* cycle it is the garbage collector that finalises the handle, in the     *)
(* order of its list: the text handle first, and all it holds is flushed;  *)
(* the byte buffer first, and the buffer is flushed but the pending bytes  *)
(* are lost; the file descriptor first, and all the handle holds is lost.  *)
(* The file is opened for appending, so text passed on lands at the end    *)
(* the file has then.  A long text of the input document (a query of 9000  *)
(* characters) is one token with the size of the text.                     *)
(*                                                                         *)
(* JSON objects of the pipeline document are records whose domain is the   *)
(* set of keys present: `'k' in obj` is "k" \in DOMAIN obj, and obj['k']   *)
(* on an absent key raises KeyError.  The value of a query field, the      *)
(* only value handed to get_value, is a tagged value: a JSON string, or a  *)
(* JSON object given as its sequence of key/value pairs in document order  *)
(* (the order str(dict) prints them in).                                   *)
(***************************************************************************)
EXTENDS Naturals, Sequences, FiniteSets, TLC

\* ------------------------------------------------------------------ bounds
\* The most activities a pipeline document lists.
MaxActs == 2
\* The most entries of an activity's dependsOn.
MaxDeps == 2
\* The most files the driver hands to read_pipeline, one call after the other.
MaxCalls == 2

\* --------------------------------------------------------------- constants
\* The bytes a text handle lets pile up before it passes them on to its byte
\* buffer (the chunk size of the handle open() returns on line 45).
chunk_size == 8192
\* The size of the handle's byte buffer: open() takes the block size of the
\* file's file system.
buffer_size == 4096

\* ------------------------------------------------------------------- texts
TypeKey == <<"t", "y", "p", "e">>
ValueKey == <<"v", "a", "l", "u", "e">>
ExpressionText == <<"E", "x", "p", "r", "e", "s", "s", "i", "o", "n">>

\* A JSON string.  `lit` tells whether the string object is the very object
\* of the literal 'Expression' of is_expression, which Python's `is` asks
\* for: a string built at run time (by json.load, by concatenation) is a
\* fresh object, lit = FALSE; only the literal itself, and a string constant
\* of Python source interned with it, has lit = TRUE.
Str(s) == [kind |-> "str", text |-> s, lit |-> FALSE]
\* The object of the literal 'Expression' on the last line of is_expression.
ExpressionLiteral == [kind |-> "str", text |-> ExpressionText, lit |-> TRUE]
\* A JSON object with string values, as the key/value pairs of its text in
\* order; a key may be repeated there.
Obj(pairs) == [kind |-> "obj", pairs |-> pairs]
Pair(k, v) == [key |-> k, val |-> v]

\* The items of the dict json.load builds from the pairs of an object: one
\* item per key, at the place of the key's first pair, with the value of its
\* last pair.
RECURSIVE Items(_)
Items(pairs) ==
    IF pairs = <<>> THEN <<>>
    ELSE LET k == Head(pairs).key
             same == {p \in 1..Len(pairs) : pairs[p].key = k}
             last == CHOOSE p \in same : \A q \in same : q <= p
         IN <<Pair(k, pairs[last].val)>>
            \o Items(SelectSeq(Tail(pairs), LAMBDA x : x.key # k))

\* The outcome of evaluating a Python expression: a value or an exception.
Return(v) == [err |-> "none", val |-> v]
Raise(e) == [err |-> e]

\* Python's `needle in input`: a substring test on a str, a key test on a dict.
Contains(needle, input) ==
    IF input.kind = "str"
    THEN \E k \in 0..Len(input.text) :
            /\ k + Len(needle) <= Len(input.text)
            /\ SubSeq(input.text, k + 1, k + Len(needle)) = needle
    ELSE \E p \in 1..Len(input.pairs) : input.pairs[p].key = needle

\* dict[key] on a key that is present (json.load keeps a key's last value).
Lookup(obj, key) ==
    LET at == {p \in 1..Len(obj.pairs) : obj.pairs[p].key = key}
        last == CHOOSE p \in at : \A q \in at : q <= p
    IN obj.pairs[last].val

\* Python's `a is b`: the same object.
Is(a, b) == a = b

\* is_expression: `if 'type' in input: return input['type'] is 'Expression'`.
\* On a str, input['type'] raises TypeError (string indices must be
\* integers); without the key the function falls off its end and returns
\* None, which get_value reads as false.
is_expression(input) ==
    IF Contains(TypeKey, input)
    THEN IF input.kind = "str"
         THEN Raise("TypeError")
         ELSE Return(Is(Lookup(input, TypeKey), ExpressionLiteral))
    ELSE Return(FALSE)

\* get_expression_value: expr['value'].
get_expression_value(expr) ==
    IF Contains(ValueKey, expr)
    THEN Return(Lookup(expr, ValueKey))
    ELSE Raise("KeyError")

\* get_value: get_expression_value(input) if is_expression(input) else input.
get_value(input) ==
    LET t == is_expression(input)
    IN IF t.err # "none" THEN t
       ELSE IF t.val THEN get_expression_value(input)
       ELSE Return(input)

\* repr() of a str without quotes or escapes in it.
ReprStr(v) == <<"'">> \o v.text \o <<"'">>

\* The items of a dict as str(dict) prints them between the braces.
RECURSIVE ReprItems(_)
ReprItems(items) ==
    IF items = <<>> THEN <<>>
    ELSE <<"'">> \o Head(items).key \o <<"'", ": ">> \o ReprStr(Head(items).val)
         \o (IF Len(items) > 1 THEN <<", ">> ELSE <<>>)
         \o ReprItems(Tail(items))

\* What str(dict) prints between the braces for the dict of an object.
ReprPairs(pairs) == ReprItems(Items(pairs))

\* '{0}'.format(v): a str as it is, a dict as str(dict) prints it.
Format(v) ==
    IF v.kind = "str" THEN v.text
    ELSE <<"{">> \o ReprPairs(v.pairs) \o <<"}">>

\* str.replace(' ', '-').
RECURSIVE ReplaceSpaces(_)
ReplaceSpaces(s) ==
    IF s = <<>> THEN <<>>
    ELSE <<IF Head(s) = " " THEN "-" ELSE Head(s)>> \o ReplaceSpaces(Tail(s))

\* -------------------------------------------------------------- long texts
\* Runs of the letter x too long to spell, one token each: 9000 characters,
\* which no buffer of the handle holds, and 8150, which the pending bytes
\* hold but not together with the fragments around them.
X9000 == "<9000 times x>"
X8150 == "<8150 times x>"

\* ---------------------------------------------------- the written fragments
\* '\n\n ## %s \n' % pipelines_data['name']
PipelineHeading(name) == <<"\n\n ## ">> \o name \o <<" \n">>
\* '\n Description: {0} \n'.format(pipelines_data['properties']['description'])
PipelineDescription(d) == <<"\n Description: ">> \o d \o <<" \n">>
\* '\n\n ### Steps \n'
StepsHeading == <<"\n\n ### Steps \n">>
\* '\n * Name: __{0}__, Type: {1}  \n'.format(act['name'], act['type'])
ActivityBullet(name, type) ==
    <<"\n * Name: __">> \o name \o <<"__, Type: ">> \o type \o <<"  \n">>
\* 'Description: {0}\n'.format(description)
ActivityDescription(d) == <<"Description: ">> \o d \o <<"\n">>
\* The code fence, three backquotes (a character no TLA+ string can hold).
Fence == "<three backquotes>"
DetailsOpen == <<"\n<details>\n">>
QuerySummary == <<"\n<summary>Query</summary>\n">>
\* '\n``` sql\n{0}\n```\n'.format(query)
QueryCode(q) == <<"\n", Fence, " sql\n">> \o Format(q) \o <<"\n", Fence, "\n">>
DetailsClose == <<"\n</details>\n">>
DependenciesLabel == <<"\n   Dependencies:">>

\* A mutant of Anchor: the name used as the link target as it is.
AnchorKeepingSpaces(name) == <<"#">> \o name

\* '#' + dep['activity'].replace(' ', '-')
Anchor(name) == <<"#">> \o ReplaceSpaces(name)

\* dep['dependencyConditions'][0]
Condition(conditions) == conditions[1]

\* '\n   * [{0}]({1}) ({2}) \n'.format(activity, anchor, condition)
DependencyLine(activity, conditions) ==
    <<"\n   * [">> \o activity \o <<"](">> \o Anchor(activity) \o <<") (">>
    \o Condition(conditions) \o <<") \n">>

\* The bytes of a token, and of a text, as the handle encodes them.
Size(token) ==
    CASE token = Fence -> 3
      [] token = X9000 -> 9000
      [] token = X8150 -> 8150
      [] OTHER -> Len(token)
RECURSIVE Bytes(_)
Bytes(text) == IF text = <<>> THEN 0 ELSE Size(Head(text)) + Bytes(Tail(text))

\* The byte buffer's write(data), `held` being what the buffer holds: data
\* that fits joins the buffer; otherwise the buffer goes to the file, and the
\* data after it when it is larger than the buffer, into the emptied buffer
\* when not.  `out` is what goes to the file.
BufferedWrite(held, data) ==
    IF Bytes(data) <= buffer_size - Bytes(held)
    THEN [buffer |-> held \o data, out |-> <<>>]
    ELSE IF Bytes(data) > buffer_size
    THEN [buffer |-> <<>>, out |-> held \o data]
    ELSE [buffer |-> data, out |-> held]

\* The text handle's write(text), `waiting` being its pending bytes: when the
\* text would take them over chunk_size they go to the byte buffer first;
\* the text joins the pending bytes, and chunk_size or more of them go to
\* the byte buffer at once.
TextWrite(waiting, held, text) ==
    LET over == waiting # <<>> /\ Bytes(waiting) + Bytes(text) > chunk_size
        first == IF over THEN BufferedWrite(held, waiting)
                 ELSE [buffer |-> held, out |-> <<>>]
        joined == IF over THEN text ELSE waiting \o text
        full == Bytes(joined) >= chunk_size
        second == IF full THEN BufferedWrite(first.buffer, joined)
                  ELSE [buffer |-> first.buffer, out |-> <<>>]
    IN [pending_bytes |-> IF full THEN <<>> ELSE joined,
        buffer |-> second.buffer,
        out |-> first.out \o second.out]

\* supported_types of read_query: source type -> the name of its query field.
supported_types ==
    (<<"SqlServerSource">> :> [query_field_name |-> "sqlReaderQuery"])
    @@ (<<"OracleSource">> :> [query_field_name |-> "oracleReaderQuery"])

\* --------------------------------------------------------------- the inputs
SeqUpTo(S, n) == UNION {[1..k -> S] : k \in 0..n}

QueryTexts ==
    { <<"q">>, TypeKey, <<"a", " ">> \o TypeKey \o <<"s">>, <<"t", "y", "p">> }

\* The `type` markers of an object in a parsed document: "Expression" and
\* another text.  json.load builds every string value afresh, so no marker of
\* a parsed document is the object of the literal (ExpressionLiteral).
Markers ==
    { Str(ExpressionText),
      Str(<<"e", "x", "p", "r", "e", "s", "s", "i", "o", "n">>) }

QueryValues ==
    {Str(t) : t \in QueryTexts}
    \cup {Obj(<<Pair(TypeKey, m), Pair(ValueKey, Str(t))>>) :
            m \in Markers, t \in QueryTexts}
    \cup {Obj(<<Pair(ValueKey, Str(<<"q">>)), Pair(TypeKey, m)>>) : m \in Markers}
    \cup {Obj(<<Pair(TypeKey, m)>>) : m \in Markers}
    \cup { Obj(<<Pair(ValueKey, Str(<<"q">>))>>),
           Obj(<<Pair(TypeKey, Str(<<"a">>)), Pair(TypeKey, Str(ExpressionText)),
                 Pair(ValueKey, Str(<<"q">>))>>),
           Obj(<<Pair(ValueKey, Str(<<"x">>)), Pair(TypeKey, Str(ExpressionText)),
                 Pair(ValueKey, Str(<<"q">>))>>) }

Sources ==
    {[type |-> <<"SqlServerSource">>, sqlReaderQuery |-> v] : v \in QueryValues}
    \cup {[type |-> <<"OracleSource">>, oracleReaderQuery |-> v] : v \in QueryValues}
    \cup { [type |-> <<"SqlServerSource">>, oracleReaderQuery |-> Str(<<"q">>)],
           [type |-> <<"OracleSource">>, sqlReaderQuery |-> Str(<<"q">>)],
           [type |-> <<"OracleSource">>],
           [type |-> <<"BlobSource">>, sqlReaderQuery |-> Str(<<"q">>)],
           [type |-> <<"sqlserversource">>, sqlReaderQuery |-> Str(<<"q">>)],
           [type |-> <<"BlobSource">>],
           [sqlReaderQuery |-> Str(<<"q">>)] }

NoSource == [sink |-> [type |-> <<"BlobSink">>]]

DepA == [activity |-> <<"A">>,
         dependencyConditions |-> << <<"Succeeded">>, <<"Completed">> >>]
DepB2 == [activity |-> <<"B", " ", "2">>,
          dependencyConditions |-> << <<"Failed">> >>]
Dependencies ==
    { DepA, DepB2,
      [dependencyConditions |-> << <<"Succeeded">> >>],
      [activity |-> <<"A">>],
      [activity |-> <<"A">>, dependencyConditions |-> <<>>] }

PlainActivity ==
    [name |-> <<"A">>, type |-> <<"Wait">>, typeProperties |-> NoSource,
     dependsOn |-> <<>>]
FullActivity ==
    [name |-> <<"B", " ", "2">>, type |-> <<"Copy">>, description |-> <<"d">>,
     typeProperties |->
        [source |-> [type |-> <<"SqlServerSource">>,
                     sqlReaderQuery |-> Str(<<"q">>)]],
     dependsOn |-> <<DepA, DepB2>>]
\* No dependsOn: the query block is written, then KeyError.
TruncatedActivity ==
    [name |-> <<"C">>, type |-> <<"Copy">>,
     typeProperties |->
        [source |-> [type |-> <<"OracleSource">>,
                     oracleReaderQuery |->
                        Obj(<<Pair(TypeKey, Str(ExpressionText)),
                              Pair(ValueKey, Str(<<"q">>))>>)]]]

CoreActivities == {PlainActivity, FullActivity, TruncatedActivity}

\* Activities with a long query: with and without dependsOn.
LongSource(text) ==
    [source |-> [type |-> <<"SqlServerSource">>,
                 sqlReaderQuery |-> Str(<<text>>)]]
LongTruncated(text) ==
    [name |-> <<"C">>, type |-> <<"Copy">>, typeProperties |-> LongSource(text)]
LongActivities ==
    {LongTruncated(t) : t \in {X9000, X8150}}
    \cup {[name |-> <<"C">>, type |-> <<"Copy">>,
           typeProperties |-> LongSource(t), dependsOn |-> ds] :
            t \in {X9000, X8150}, ds \in {<<>>, <<DepA>>}}

RichActivities ==
    {[name |-> <<"A">>, type |-> <<"Copy">>, description |-> <<"d">>,
      typeProperties |-> [source |-> s], dependsOn |-> <<DepB2>>] : s \in Sources}
    \cup {[name |-> <<"A">>, type |-> <<"Copy">>, typeProperties |-> NoSource,
           dependsOn |-> ds] : ds \in SeqUpTo(Dependencies, MaxDeps)}
    \cup { [type |-> <<"Copy">>, description |-> <<"d">>,
            typeProperties |-> NoSource, dependsOn |-> <<>>],
           [name |-> <<"A">>, description |-> <<"d">>,
            typeProperties |-> NoSource, dependsOn |-> <<>>],
           [name |-> <<"A">>, type |-> <<"Copy">>, description |-> <<"d">>,
            dependsOn |-> <<DepA>>],
           [name |-> <<"A">>, type |-> <<"Copy">>, description |-> <<"d">>,
            typeProperties |-> NoSource, dependsOn |-> <<>>] }

\* Activity lists: any list of core activities, and the lists with one rich
\* activity among core ones.
ActivityLists ==
    SeqUpTo(CoreActivities, MaxActs)
    \cup {p \o <<r>> \o q :
            r \in RichActivities,
            p \in SeqUpTo(CoreActivities, MaxActs - 1),
            q \in SeqUpTo(CoreActivities, 1)}

PipelineName == <<"P", " ", "1">>

Documents ==
    {[name |-> PipelineName, properties |-> [activities |-> as]] :
        as \in {l \in ActivityLists : Len(l) <= MaxActs}}
    \cup {[name |-> PipelineName,
           properties |-> [description |-> <<"p", "d">>, activities |-> as]] :
            as \in SeqUpTo(CoreActivities, MaxActs)}
    \cup {[properties |-> [activities |-> as]] : as \in SeqUpTo(CoreActivities, 1)}
    \cup { [name |-> PipelineName],
           [name |-> PipelineName, properties |-> [description |-> <<"p", "d">>]],
           [name |-> PipelineName, properties |-> [annotations |-> <<>>]],
           [name |-> <<X9000>>],
           [name |-> <<X8150>>, properties |-> [description |-> <<"p", "d">>]] }
    \cup {[name |-> PipelineName, properties |-> [activities |-> as]] :
            as \in {<<a>> : a \in LongActivities}
                   \cup {<<a, b>> : a \in LongActivities,
                                    b \in LongActivities \cup {PlainActivity}}}

\* The input file: absent, unreadable, not JSON, or a JSON document.
Json(d) == [kind |-> "json", data |-> d]
InputFiles ==
    { [kind |-> "missing"], [kind |-> "unreadable"], [kind |-> "malformed"] }
    \cup {Json(d) : d \in Documents}

\* The files of a driver that renders several pipelines into one document.
SmallInputs ==
    { [kind |-> "missing"], [kind |-> "malformed"],
      Json([name |-> PipelineName, properties |-> [activities |-> <<>>]]),
      Json([name |-> <<"Q">>,
            properties |-> [description |-> <<"p", "d">>,
                            activities |-> <<FullActivity>>]]),
      Json([name |-> <<"R">>,
            properties |-> [activities |-> <<PlainActivity, TruncatedActivity>>]]),
      Json([name |-> <<"S">>,
            properties |-> [activities |-> <<LongTruncated(X9000)>>]]),
      Json([name |-> <<"T">>,
            properties |-> [activities |-> <<LongTruncated(X8150)>>]]) }

\* What the driver hands to read_pipeline, call after call: one file of any
\* kind, or up to MaxCalls of the small ones.
Runs ==
    {<<f>> : f \in InputFiles} \cup (SeqUpTo(SmallInputs, MaxCalls) \ {<<>>})

\* What the Markdown file holds before the first call.
InitialContents == { <<>>, <<"# Pipelines\n">> }

\* ---------------------------------------------------------------- the state
VARIABLES
    file,            \* the text of the Markdown file
    pending_bytes,   \* the pending bytes of the call's output handle
    buffer,          \* the text in the byte buffer of the call's output handle
    written,         \* the text the call has handed to write() so far
    leaked,          \* the handles earlier failed calls left open, not yet
                     \* finalised: the byte buffer and pending bytes of each
    calls,           \* the calls of read_pipeline begun so far
    pipelines_file,  \* the output handle of the call: unopened, open, closed
    json_file,       \* the input handle of the call: unopened, open, closed
    pending,         \* the input files the driver has still to hand over
    input,           \* the input file of the call
    pc,              \* where the call stands
    err,             \* the exception that left read_pipeline, or "none"
    i,               \* the activity the loop of read_pipeline is at (1-based)
    j,               \* the entry the loop over act['dependsOn'] is at
    query,           \* the local `query` of read_query
    pre,             \* the text the file held when the call began
    original,        \* the text the file held before the first call
    done             \* the documents of the calls that returned, in order

vars ==
    <<file, pending_bytes, buffer, written, leaked, calls, pipelines_file,
      json_file, pending, input, pc, err, i, j, query, pre, original, done>>

\* What the call's handle holds, in the order it goes to the file.
Held == buffer \o pending_bytes
\* The parts of the state no step of a call but a write() changes.
handle == <<file, pending_bytes, buffer, written>>

pipelines_data == input.data
act == pipelines_data.properties.activities[i]

Init ==
    /\ file \in InitialContents
    /\ pending_bytes = <<>>
    /\ buffer = <<>>
    /\ written = <<>>
    /\ leaked = <<>>
    /\ calls = 0
    /\ original = file
    /\ pre = file
    /\ pending \in Runs
    /\ input = [kind |-> "none"]
    /\ pipelines_file = "unopened"
    /\ json_file = "unopened"
    /\ pc = "idle"
    /\ err = "none"
    /\ i = 0
    /\ j = 0
    /\ query = Str(<<>>)
    /\ done = <<>>

\* An exception leaves read_pipeline: the with statement closes the input
\* file on the way out; nothing closes the output file, whose handle keeps
\* what it holds.
Fail(e) ==
    /\ pc' = "raised"
    /\ err' = e
    /\ json_file' = IF json_file = "open" THEN "closed" ELSE json_file
    /\ UNCHANGED <<handle, pipelines_file, pending, input, i, j, query, pre,
                   original, done, leaked, calls>>

\* pipelines_file.write(text): the handle takes the text and passes on to the
\* file what its buffers no longer hold.
WriteText(text) ==
    LET w == TextWrite(pending_bytes, buffer, text)
    IN /\ pending_bytes' = w.pending_bytes
       /\ buffer' = w.buffer
       /\ file' = file \o w.out
       /\ written' = written \o text

\* pipelines_file.write(text), then on to `next`.
Write(text, next) ==
    /\ WriteText(text)
    /\ pc' = next
    /\ UNCHANGED <<pipelines_file, json_file, pending, input, err, i, j, query,
                   pre, original, done, leaked, calls>>

\* No write, on to `next`.
Skip(next) ==
    /\ pc' = next
    /\ UNCHANGED <<handle, pipelines_file, json_file, pending, input, err, i,
                   j, query, pre, original, done, leaked, calls>>

\* A mutant of OpenAppend: open(markdown_file_name, 'w') truncates the file.
OpenTruncate(content) == <<>>

\* open(markdown_file_name, 'a'): the content stays, writes go to its end.
OpenAppend(content) == content

\* read_pipeline is called on the next file: open(markdown_file_name, 'a').
\* After a call that raised, the caller may still hold the exception, and
\* with it the frame and its open handle: that handle stays behind.
Call ==
    /\ pc \in {"idle", "returned", "raised"}
    /\ pending # <<>>
    /\ calls' = calls + 1
    /\ input' = Head(pending)
    /\ pending' = Tail(pending)
    /\ file' = OpenAppend(file)
    /\ pre' = file
    /\ leaked' = IF pipelines_file = "open"
                 THEN Append(leaked, [buffer |-> buffer,
                                      pending_bytes |-> pending_bytes])
                 ELSE leaked
    /\ pending_bytes' = <<>>
    /\ buffer' = <<>>
    /\ written' = <<>>
    /\ pipelines_file' = "open"
    /\ json_file' = "unopened"
    /\ pc' = "open_input"
    /\ err' = "none"
    /\ i' = 0
    /\ j' = 0
    /\ UNCHANGED <<query, original, done>>

\* with open(pipeline_file_name) as json_file
OpenInput ==
    /\ pc = "open_input"
    /\ IF input.kind = "missing" THEN Fail("FileNotFoundError")
       ELSE IF input.kind = "unreadable" THEN Fail("PermissionError")
       ELSE /\ json_file' = "open"
            /\ pc' = "load"
            /\ UNCHANGED <<handle, pipelines_file, pending, input, err, i, j,
                           query, pre, original, done, leaked, calls>>

\* A mutant of Load: the Steps heading is written before the document is parsed.
LoadAfterWrite ==
    /\ pc = "load"
    /\ IF input.kind = "malformed"
       THEN /\ WriteText(StepsHeading)
            /\ pc' = "raised"
            /\ err' = "JSONDecodeError"
            /\ json_file' = "closed"
            /\ UNCHANGED <<pipelines_file, pending, input, i, j, query, pre,
                           original, done, leaked, calls>>
       ELSE Skip("heading")

\* pipelines_data = json.load(json_file)
Load ==
    /\ pc = "load"
    /\ IF input.kind = "malformed" THEN Fail("JSONDecodeError")
       ELSE Skip("heading")

\* pipelines_file.write('\n\n ## %s \n' % pipelines_data['name'])
WriteHeading ==
    /\ pc = "heading"
    /\ IF "name" \in DOMAIN pipelines_data
       THEN Write(PipelineHeading(pipelines_data.name), "description")
       ELSE Fail("KeyError")

\* if 'description' in pipelines_data['properties']: pipelines_file.write(...)
WriteDescription ==
    /\ pc = "description"
    /\ IF "properties" \notin DOMAIN pipelines_data THEN Fail("KeyError")
       ELSE IF "description" \in DOMAIN pipelines_data.properties
       THEN Write(PipelineDescription(pipelines_data.properties.description),
                  "steps")
       ELSE Skip("steps")

\* pipelines_file.write('\n\n ### Steps \n')
WriteSteps ==
    /\ pc = "steps"
    /\ Write(StepsHeading, "loop")

\* A mutant of read_activity_order: the query before the description.
read_activity_query_first ==
    <<"bullet", "query", "act_description", "dependencies">>

\* read_activity: the bullet line, then read_activity_description, read_query
\* and read_activity_dependencies.
read_activity_order == <<"bullet", "act_description", "query", "dependencies">>

\* The step of read_activity after `step`; after the last, the loop goes on.
After(step) ==
    LET k == CHOOSE n \in 1..Len(read_activity_order) :
                read_activity_order[n] = step
    IN IF k < Len(read_activity_order) THEN read_activity_order[k + 1]
       ELSE "loop"

\* for act in pipelines_data['properties']['activities']: read_activity(...)
LoopActivities ==
    /\ pc = "loop"
    /\ IF "activities" \notin DOMAIN pipelines_data.properties
       THEN Fail("KeyError")
       ELSE IF i < Len(pipelines_data.properties.activities)
       THEN /\ i' = i + 1
            /\ pc' = read_activity_order[1]
            /\ UNCHANGED <<handle, pipelines_file, json_file, pending, input,
                           err, j, query, pre, original, done, leaked, calls>>
       ELSE /\ json_file' = "closed"
            /\ pc' = "close"
            /\ UNCHANGED <<handle, pipelines_file, pending, input, err, i, j,
                           query, pre, original, done, leaked, calls>>

\* read_activity: the bullet line; act['name'] and act['type'] are read before
\* the write.
WriteBullet ==
    /\ pc = "bullet"
    /\ IF "name" \in DOMAIN act /\ "type" \in DOMAIN act
       THEN Write(ActivityBullet(act.name, act.type), After("bullet"))
       ELSE Fail("KeyError")

\* read_activity_description
ReadActivityDescription ==
    /\ pc = "act_description"
    /\ IF "description" \in DOMAIN act
       THEN Write(ActivityDescription(act.description), After("act_description"))
       ELSE Skip(After("act_description"))

\* read_query up to the first write: the source, its type, the query field
\* and get_value are read before anything is written.
ReadQuery ==
    /\ pc = "query"
    /\ IF "typeProperties" \notin DOMAIN act THEN Fail("KeyError")
       ELSE IF "source" \notin DOMAIN act.typeProperties
       THEN Skip(After("query"))
       ELSE LET source == act.typeProperties.source
            IN IF "type" \notin DOMAIN source THEN Fail("KeyError")
               ELSE IF source.type \notin DOMAIN supported_types
               THEN Skip(After("query"))
               ELSE LET query_field_name ==
                            supported_types[source.type].query_field_name
                    IN IF query_field_name \notin DOMAIN source
                       THEN Fail("KeyError")
                       ELSE LET r == get_value(source[query_field_name])
                            IN IF r.err # "none" THEN Fail(r.err)
                               ELSE /\ query' = r.val
                                    /\ pc' = "details"
                                    /\ UNCHANGED <<handle, pipelines_file,
                                                   json_file, pending, input,
                                                   err, i, j, pre, original,
                                                   done, leaked, calls>>

\* pipelines_file.write('\n<details>\n')
WriteDetailsOpen ==
    /\ pc = "details"
    /\ Write(DetailsOpen, "summary")

\* pipelines_file.write('\n<summary>Query</summary>\n')
WriteQuerySummary ==
    /\ pc = "summary"
    /\ Write(QuerySummary, "code")

\* pipelines_file.write(the fenced sql block)
WriteQueryCode ==
    /\ pc = "code"
    /\ Write(QueryCode(query), "end_details")

\* pipelines_file.write('\n</details>\n')
WriteDetailsClose ==
    /\ pc = "end_details"
    /\ Write(DetailsClose, After("query"))

\* read_activity_dependencies: the label, if dependsOn is not empty.
ReadDependencies ==
    /\ pc = "dependencies"
    /\ IF "dependsOn" \notin DOMAIN act THEN Fail("KeyError")
       ELSE IF Len(act.dependsOn) > 0
       THEN /\ WriteText(DependenciesLabel)
            /\ j' = 0
            /\ pc' = "dep"
            /\ UNCHANGED <<pipelines_file, json_file, pending, input,
                           err, i, query, pre, original, done, leaked, calls>>
       ELSE Skip(After("dependencies"))

\* for dep in act['dependsOn']: one line; the arguments of format are
\* evaluated before the write.
WriteDependency ==
    /\ pc = "dep"
    /\ IF j < Len(act.dependsOn)
       THEN LET dep == act.dependsOn[j + 1]
            IN IF "activity" \notin DOMAIN dep THEN Fail("KeyError")
               ELSE IF "dependencyConditions" \notin DOMAIN dep
               THEN Fail("KeyError")
               ELSE IF Len(dep.dependencyConditions) = 0
               THEN Fail("IndexError")
               ELSE /\ WriteText(DependencyLine(dep.activity,
                                                dep.dependencyConditions))
                    /\ j' = j + 1
                    /\ UNCHANGED <<pipelines_file, json_file, pending,
                                   input, pc, err, i, query, pre, original,
                                   done, leaked, calls>>
       ELSE Skip(After("dependencies"))

\* pipelines_file.close(): what the handle holds goes to the end of the
\* file, and read_pipeline returns.
Close ==
    /\ pc = "close"
    /\ file' = file \o Held
    /\ pending_bytes' = <<>>
    /\ buffer' = <<>>
    /\ pipelines_file' = "closed"
    /\ pc' = "returned"
    /\ done' = Append(done, pipelines_data)
    /\ UNCHANGED <<written, leaked, calls, json_file, pending, input, err, i,
                   j, query, pre, original>>

\* The caller lets go of the exception of the call that raised: the frame
\* goes, the handle it left open is finalised (so too when the collector
\* finalises its text handle first), and what it holds goes to the end of the
\* file.
Release ==
    /\ pc = "raised"
    /\ pipelines_file = "open"
    /\ file' = file \o Held
    /\ pending_bytes' = <<>>
    /\ buffer' = <<>>
    /\ pipelines_file' = "closed"
    /\ UNCHANGED <<written, leaked, calls, json_file, pending, input, pc, err,
                   i, j, query, pre, original, done>>

\* What reaches the file when the garbage collector finalises a handle whose
\* byte buffer holds `held`: the buffer when the byte buffer is finalised
\* before the text handle and the file descriptor, nothing when the file
\* descriptor is closed first.  The pending bytes are lost either way.
Collected(held) == {held, <<>>}

\* The exception of the call that raised is part of a reference cycle (it is
\* kept in a variable of a frame of its own traceback), and the garbage
\* collector finalises the handle, its text handle not the first: the pending
\* bytes are lost, and the byte buffer as well unless it was finalised first.
ReleaseCollected ==
    /\ pc = "raised"
    /\ pipelines_file = "open"
    /\ \E out \in Collected(buffer) : file' = file \o out
    /\ pending_bytes' = <<>>
    /\ buffer' = <<>>
    /\ pipelines_file' = "closed"
    /\ UNCHANGED <<written, leaked, calls, json_file, pending, input, pc, err,
                   i, j, query, pre, original, done>>

\* The handles left behind but the k-th.
Without(k) == SubSeq(leaked, 1, k - 1) \o SubSeq(leaked, k + 1, Len(leaked))

\* A handle an earlier call left open is finalised with its text handle
\* first (its exception is dropped, or the collector takes it in that order):
\* what it holds goes to the end of the file.
Finalise ==
    \E k \in 1..Len(leaked) :
        /\ file' = file \o leaked[k].buffer \o leaked[k].pending_bytes
        /\ leaked' = Without(k)
        /\ UNCHANGED <<pending_bytes, buffer, written, calls, pipelines_file,
                       json_file, pending, input, pc, err, i, j, query, pre,
                       original, done>>

\* A handle an earlier call left open is finalised by the garbage collector,
\* its text handle not the first: its pending bytes are lost, and its byte
\* buffer as well unless it was finalised first.
FinaliseCollected ==
    \E k \in 1..Len(leaked) :
        /\ \E out \in Collected(leaked[k].buffer) : file' = file \o out
        /\ leaked' = Without(k)
        /\ UNCHANGED <<pending_bytes, buffer, written, calls, pipelines_file,
                       json_file, pending, input, pc, err, i, j, query, pre,
                       original, done>>

Next ==
    \/ Call
    \/ OpenInput
    \/ Load
    \/ WriteHeading
    \/ WriteDescription
    \/ WriteSteps
    \/ LoopActivities
    \/ WriteBullet
    \/ ReadActivityDescription
    \/ ReadQuery
    \/ WriteDetailsOpen
    \/ WriteQuerySummary
    \/ WriteQueryCode
    \/ WriteDetailsClose
    \/ ReadDependencies
    \/ WriteDependency
    \/ Close
    \/ Release
    \/ ReleaseCollected
    \/ Finalise
    \/ FinaliseCollected

Spec == Init /\ [][Next]_vars

\* ------------------------------------------------------- reading the output
IsPrefix(p, t) == Len(p) <= Len(t) /\ SubSeq(t, 1, Len(p)) = p
EndsWith(t, e) == Len(e) <= Len(t) /\ SubSeq(t, Len(t) - Len(e) + 1, Len(t)) = e
Positions(t, token) == {k \in 1..Len(t) : t[k] = token}
Largest(S) == CHOOSE k \in S : \A m \in S : m <= k
Smallest(S) == CHOOSE k \in S : \A m \in S : k <= m

\* The tokens that open a fragment.
BulletToken == Head(ActivityBullet(<<>>, <<>>))
OpenToken == Head(DetailsOpen)
CloseToken == Head(DetailsClose)
BlockTokens == {OpenToken, Head(QuerySummary), Fence, CloseToken}

\* Every call before the one at hand returned, and every call so far did.
EarlierCallsReturned == Len(done) = calls - 1
AllCallsReturned == Len(done) = calls

\* The text from the last bullet line on: what the activity at hand wrote.
SinceLastBullet(t) ==
    LET B == Positions(t, BulletToken)
    IN IF B = {} THEN <<>> ELSE SubSeq(t, Largest(B), Len(t))

\* The source of an activity that has one, and whether read_query knows it.
SourceOf(a) == a.typeProperties.source
HasTypedSource(a) ==
    /\ "typeProperties" \in DOMAIN a
    /\ "source" \in DOMAIN a.typeProperties
    /\ "type" \in DOMAIN SourceOf(a)
Recognised(a) ==
    /\ HasTypedSource(a)
    /\ SourceOf(a).type \in {<<"SqlServerSource">>, <<"OracleSource">>}
QueryFieldOf(a) ==
    IF SourceOf(a).type = <<"SqlServerSource">> THEN "sqlReaderQuery"
    ELSE "oracleReaderQuery"
HasQuery(a) == Recognised(a) /\ QueryFieldOf(a) \in DOMAIN SourceOf(a)
QueryOf(a) == SourceOf(a)[QueryFieldOf(a)]

\* An object tagged as an expression: a `type` key whose text is "Expression"
\* and a `value` key.
Tagged(x) ==
    /\ x.kind = "obj"
    /\ \E p \in 1..Len(Items(x.pairs)) :
          /\ Items(x.pairs)[p].key = TypeKey
          /\ Items(x.pairs)[p].val.text = ExpressionText
    /\ \E p \in 1..Len(Items(x.pairs)) : Items(x.pairs)[p].key = ValueKey
ValueOf(x) ==
    LET items == Items(x.pairs)
    IN items[CHOOSE p \in 1..Len(items) : items[p].key = ValueKey].val

\* ------------------------------------------------------------------ claims

\* C1: get_value of an object tagged "Expression" (by the text of the marker)
\* with value v is v, and the query block read_query renders for it holds v,
\* not the wrapping object.
C1_TaggedExpressionResolved ==
    (pc = "end_details" /\ Tagged(QueryOf(act)))
        => /\ get_value(QueryOf(act)) = Return(ValueOf(QueryOf(act)))
           /\ EndsWith(written, QueryCode(ValueOf(QueryOf(act))))

\* get_value applied twice gives what it gives once, and does not raise.
Idempotent(x) ==
    LET r == get_value(x)
    IN r.err = "none" /\ get_value(r.val) = r

\* C2: get_value of a plain string returns the string, whatever its text, and
\* does not raise; get_value is idempotent on plain strings and on tagged
\* expressions.
C2_PlainStringUnchanged ==
    (pc = "query" /\ i >= 1 /\ HasQuery(act))
        => /\ QueryOf(act).kind = "str" => get_value(QueryOf(act)) = Return(QueryOf(act))
           /\ (QueryOf(act).kind = "str" \/ Tagged(QueryOf(act)))
                => Idempotent(QueryOf(act))

\* C3: however read_pipeline ends, by returning or by an exception, the
\* output handle it opened is closed.
C3_OutputClosedOnEveryExit ==
    pc \in {"returned", "raised"} => pipelines_file = "closed"

\* C4: when the input file is missing, unreadable or not JSON, the call ends
\* with the error and has written nothing: nothing is written before the
\* document is parsed, the handle holds nothing when the error leaves, and
\* (no earlier call having left a handle behind) the file is as it was.
C4_ParseFailureWritesNothing ==
    /\ pc \in {"open_input", "load"} => written = <<>> /\ Held = <<>>
    /\ (pc \in {"returned", "raised"} /\ input.kind # "json")
          => /\ pc = "raised"
             /\ err \in {"FileNotFoundError", "PermissionError", "JSONDecodeError"}
             /\ written = <<>>
             /\ Held = <<>>
             /\ EarlierCallsReturned => file = pre
C4_Witness ==
    /\ pc = "raised"
    /\ input.kind = "malformed"
    /\ err = "JSONDecodeError"
    /\ pre # <<>>
    /\ calls = 2
    /\ EarlierCallsReturned

\* The query field of a recognised source is there, and if it is an object
\* it has its `value`.
WellFormedQuery(a) ==
    /\ HasQuery(a)
    /\ QueryOf(a).kind = "obj" =>
          \E p \in 1..Len(QueryOf(a).pairs) : QueryOf(a).pairs[p].key = ValueKey

\* C5: read_query goes on to write the query block exactly when the activity
\* has a source of type SqlServerSource or OracleSource (with its query field,
\* a string or an object with its `value`); with no source or another type it
\* writes nothing and raises nothing.
C5_QueryBlockIffRecognised ==
    [][(/\ pc = "query"
        /\ pc' # "query"
        /\ "typeProperties" \in DOMAIN act
        /\ "source" \in DOMAIN act.typeProperties => "type" \in DOMAIN SourceOf(act)
        /\ Recognised(act) => WellFormedQuery(act))
          => IF Recognised(act)
             THEN pc' = "details" /\ written' = written
             ELSE pc' = After("query") /\ written' = written /\ err' = "none"]_vars

\* The fragments as the interface documents them, for a well-formed input.
Hyphenated(name) == [k \in 1..Len(name) |-> IF name[k] = " " THEN "-" ELSE name[k]]
ExpectedDependencyLine(d) ==
    <<"\n   * [">> \o d.activity \o <<"](", "#">> \o Hyphenated(d.activity)
    \o <<") (">> \o d.dependencyConditions[1] \o <<") \n">>
RECURSIVE ExpectedDependencyLines(_)
ExpectedDependencyLines(ds) ==
    IF ds = <<>> THEN <<>>
    ELSE ExpectedDependencyLine(Head(ds)) \o ExpectedDependencyLines(Tail(ds))
ExpectedDependencies(ds) ==
    IF Len(ds) = 0 THEN <<>>
    ELSE <<"\n   Dependencies:">> \o ExpectedDependencyLines(ds)

\* The dependency section of a text: from its first label or dependency line.
DependencySection(t) ==
    LET D == Positions(t, "\n   Dependencies:") \cup Positions(t, "\n   * [")
    IN IF D = {} THEN <<>> ELSE SubSeq(t, Smallest(D), Len(t))

\* C6: once read_activity_dependencies is through with an activity, what the
\* activity wrote holds no label and no line if dependsOn is empty, and for n
\* entries the label once and then n lines in order, each with the entry's
\* name, `#` and the name with hyphens for spaces, and the entry's first
\* condition only.
C6_DependencyRule ==
    (pc = "loop" /\ i >= 1)
        => DependencySection(SinceLastBullet(written))
              = ExpectedDependencies(act.dependsOn)
C6_Witness ==
    /\ pc = "loop"
    /\ i >= 1
    /\ Len(act.dependsOn) >= 2
    /\ " " \in {act.dependsOn[2].activity[k] :
                   k \in 1..Len(act.dependsOn[2].activity)}
    /\ Len(act.dependsOn[1].dependencyConditions) >= 2

\* The rendering of a well-formed document, fragment by fragment in the
\* documented order.  The text inside the query block is what get_value gives.
ExpectedQueryBlock(a) ==
    IF Recognised(a)
    THEN <<"\n<details>\n", "\n<summary>Query</summary>\n">>
         \o QueryCode(get_value(QueryOf(a)).val)
         \o <<"\n</details>\n">>
    ELSE <<>>
ExpectedActivity(a) ==
    <<"\n * Name: __">> \o a.name \o <<"__, Type: ">> \o a.type \o <<"  \n">>
    \o (IF "description" \in DOMAIN a
        THEN <<"Description: ">> \o a.description \o <<"\n">> ELSE <<>>)
    \o ExpectedQueryBlock(a)
    \o ExpectedDependencies(a.dependsOn)
RECURSIVE ExpectedActivities(_)
ExpectedActivities(as) ==
    IF as = <<>> THEN <<>>
    ELSE ExpectedActivity(Head(as)) \o ExpectedActivities(Tail(as))
Rendering(d) ==
    <<"\n\n ## ">> \o d.name \o <<" \n">>
    \o (IF "description" \in DOMAIN d.properties
        THEN <<"\n Description: ">> \o d.properties.description \o <<" \n">>
        ELSE <<>>)
    \o <<"\n\n ### Steps \n">>
    \o ExpectedActivities(d.properties.activities)

\* C7: a call that gets to close() has written the name heading, the pipeline
\* description if there is one, the Steps heading, and then activity by
\* activity, in document order, the bullet line, the description if there is
\* one, the query block if any and the dependency section if any, each heading
\* once; when it returns (no earlier call having left a handle behind) the
\* file holds what it held followed by exactly that.
C7_WriteOrder ==
    /\ pc = "close" => written = Rendering(pipelines_data)
    /\ (pc = "returned" /\ AllCallsReturned)
          => file = pre \o Rendering(pipelines_data)
C7_Witness ==
    /\ pc = "returned"
    /\ "description" \in DOMAIN pipelines_data.properties
    /\ Len(pipelines_data.properties.activities) >= 2
    /\ \E k \in 1..Len(pipelines_data.properties.activities) :
          LET a == pipelines_data.properties.activities[k]
          IN /\ "description" \in DOMAIN a
             /\ Recognised(a)
             /\ Len(a.dependsOn) >= 2
    /\ pipelines_data.properties.activities[1]
          # pipelines_data.properties.activities[2]

\* What a render writes before its first failing step: [text, ok].
Ok(text) == [text |-> text, ok |-> TRUE]
Failed(text) == [text |-> text, ok |-> FALSE]
RECURSIVE LinesUntilFailure(_)
LinesUntilFailure(ds) ==
    IF ds = <<>> THEN Ok(<<>>)
    ELSE IF \/ "activity" \notin DOMAIN Head(ds)
            \/ "dependencyConditions" \notin DOMAIN Head(ds)
            \/ Len(Head(ds).dependencyConditions) = 0
         THEN Failed(<<>>)
         ELSE LET rest == LinesUntilFailure(Tail(ds))
              IN [text |-> DependencyLine(Head(ds).activity,
                                          Head(ds).dependencyConditions)
                           \o rest.text,
                  ok |-> rest.ok]
DependenciesUntilFailure(a) ==
    IF "dependsOn" \notin DOMAIN a THEN Failed(<<>>)
    ELSE IF a.dependsOn = <<>> THEN Ok(<<>>)
    ELSE LET lines == LinesUntilFailure(a.dependsOn)
         IN [text |-> DependenciesLabel \o lines.text, ok |-> lines.ok]
QueryUntilFailure(a) ==
    IF "typeProperties" \notin DOMAIN a THEN Failed(<<>>)
    ELSE IF "source" \notin DOMAIN a.typeProperties THEN Ok(<<>>)
    ELSE IF "type" \notin DOMAIN SourceOf(a) THEN Failed(<<>>)
    ELSE IF ~Recognised(a) THEN Ok(<<>>)
    ELSE IF ~HasQuery(a) THEN Failed(<<>>)
    ELSE IF get_value(QueryOf(a)).err # "none" THEN Failed(<<>>)
    ELSE Ok(DetailsOpen \o QuerySummary \o QueryCode(get_value(QueryOf(a)).val)
            \o DetailsClose)
ActivityUntilFailure(a) ==
    IF "name" \notin DOMAIN a \/ "type" \notin DOMAIN a THEN Failed(<<>>)
    ELSE LET head == ActivityBullet(a.name, a.type)
                     \o (IF "description" \in DOMAIN a
                         THEN ActivityDescription(a.description) ELSE <<>>)
             q == QueryUntilFailure(a)
             ds == DependenciesUntilFailure(a)
         IN IF ~q.ok THEN Failed(head \o q.text)
            ELSE [text |-> head \o q.text \o ds.text, ok |-> ds.ok]
RECURSIVE ActivitiesUntilFailure(_)
ActivitiesUntilFailure(as) ==
    IF as = <<>> THEN Ok(<<>>)
    ELSE LET first == ActivityUntilFailure(Head(as))
         IN IF ~first.ok THEN first
            ELSE LET rest == ActivitiesUntilFailure(Tail(as))
                 IN [text |-> first.text \o rest.text, ok |-> rest.ok]
RenderUntilFailure(d) ==
    IF "name" \notin DOMAIN d THEN Failed(<<>>)
    ELSE IF "properties" \notin DOMAIN d THEN Failed(PipelineHeading(d.name))
    ELSE LET head == PipelineHeading(d.name)
                     \o (IF "description" \in DOMAIN d.properties
                         THEN PipelineDescription(d.properties.description)
                         ELSE <<>>)
                     \o StepsHeading
         IN IF "activities" \notin DOMAIN d.properties THEN Failed(head)
            ELSE LET as == ActivitiesUntilFailure(d.properties.activities)
                 IN [text |-> head \o as.text, ok |-> as.ok]

\* C8: when a render fails after the document was parsed, the call ends with
\* the error, and the file holds what it held plus exactly the fragments of
\* the steps before the failing one, in order, and no fragment of a later step
\* or activity.
C8_FailureLeavesPrefix ==
    (pc = "raised" /\ input.kind = "json" /\ EarlierCallsReturned)
        => /\ err \in {"KeyError", "IndexError", "TypeError"}
           /\ ~RenderUntilFailure(pipelines_data).ok
           /\ file = pre \o RenderUntilFailure(pipelines_data).text

RECURSIVE Renderings(_)
Renderings(ds) ==
    IF ds = <<>> THEN <<>> ELSE Rendering(Head(ds)) \o Renderings(Tail(ds))

\* C9: the file only grows at its end: what it held before the call, and
\* before the first call, stays a prefix of what it holds, and after calls
\* that all returned it holds the original text followed by their renderings
\* in call order.
C9_AppendOnly ==
    /\ IsPrefix(pre, file)
    /\ IsPrefix(original, pre)
    /\ (pc = "returned" /\ AllCallsReturned)
          => file = original \o Renderings(done)
C9_Witness ==
    /\ pc = "returned"
    /\ Len(done) >= 2
    /\ AllCallsReturned
    /\ original # <<>>
    /\ done[1] # done[2]

\* In a text, every opening marker is followed by a closing marker with no
\* bullet line between them; when `writing`, the last block may be under way,
\* with no closing marker and no bullet line after its opening marker yet.
BlocksClosed(t, writing) ==
    LET opens == Positions(t, OpenToken)
        closes == Positions(t, CloseToken)
        bullets == Positions(t, BulletToken)
    IN \A k \in opens :
          \/ \E m \in closes : m > k /\ \A b \in bullets : ~(k < b /\ b < m)
          \/ writing /\ \A n \in closes \cup bullets : n < k

\* C10: a query block is written whole or not at all.  In what the call has
\* written, every opening marker is followed by a closing marker before the
\* next bullet line, unless the block is being written, and so it is in the
\* file at every moment; a recognised source without its query field makes
\* read_query fail with no fragment of the block written.
C10_QueryBlockAtomic ==
    /\ BlocksClosed(written, pc \in {"summary", "code", "end_details"})
    /\ BlocksClosed(SubSeq(file, Len(original) + 1, Len(file)), TRUE)
    /\ (/\ pc = "raised"
        /\ input.kind = "json"
        /\ i >= 1
        /\ "name" \in DOMAIN act /\ "type" \in DOMAIN act
        /\ Recognised(act)
        /\ ~HasQuery(act))
          => /\ err = "KeyError"
             /\ \A k \in 1..Len(SinceLastBullet(written)) :
                   SinceLastBullet(written)[k] \notin BlockTokens
====
